---- MODULE Spec2Model ----
(***************************************************************************)
(* Model of NataKl/exchange_rate: the rate cache (currency.py) and the     *)
(* rate resolver / converter (currency_converter.py).                      *)
(*                                                                         *)
(* Three specifications share the module:                                  *)
(*   Spec         the resolver functions applied to every bounded table;   *)
(*   ConvertSpec  convert_currency and the converter's "convert" menu      *)
(*                handler applied to every bounded table;                  *)
(*   RunSpec      one run of currency.py or of currency_converter.py       *)
(*                against a cache file, the HTTP API and the console.      *)
(*                                                                         *)
(* Numbers are exact rationals <<n, d>> in lowest terms (d > 0).  A Python *)
(* None is the record None; a returned value v is Some(v).                 *)
(***************************************************************************)
EXTENDS Integers, Sequences, FiniteSets, TLC

VARIABLES
    data,       \* the in-memory rate table the resolver works on (or None)
    call,       \* the last operation applied, with its arguments
    result,     \* what that operation returned
    calls,      \* the functions that operation called, in call order
    prog,       \* which script runs: "currency", "converter" ("none" under Spec)
    pc,         \* the script's position
    file,       \* the cache file currency_rate.json: its content and its age
    fileAtStart,\* the cache file as the run found it
    fresh,      \* the outcome of the freshness check of this run
    fetched,    \* the HTTP outcomes of this run's refresh, one per request issued
    allData,    \* the table update_currency_rates assembled
    saved,      \* the outcome of this run's save_to_file
    loaded      \* the outcome of this run's load of the cache file

vars == <<data, call, result, calls, prog, pc, file, fileAtStart, fresh,
          fetched, allData, saved, loaded>>

fnVars == <<data, call, result, calls>>
runVars == <<prog, pc, file, fileAtStart, fresh, fetched, allData, saved, loaded>>

----------------------------------------------------------------------------
(* Bounds of the model *)

\* rates range over 0..MaxRate
MaxRate == 2

\* currency codes of the resolver's tables; AnchorCodes may be top-level keys
Codes == {"USD", "EUR", "GBP"}
AnchorCodes == {"USD", "EUR"}

\* amounts handed to convert_currency
Amounts == {-1, 0, 2}

\* what the user may type at the amount prompt
AmountInputs == {"-1", "0", "2", "abc"}

----------------------------------------------------------------------------
(* Values *)

None == [none |-> TRUE]
Some(v) == [val |-> v]
IsNone(r) == r = None

Abs(n) == IF n < 0 THEN -n ELSE n

RECURSIVE GCD(_, _)
GCD(a, b) == IF b = 0 THEN a ELSE GCD(b, a % b)

\* n / d as a rational in lowest terms, d > 0
Frac(n, d) == LET g == GCD(Abs(n), d) IN <<n \div g, d \div g>>

\* a rate read from the table, as a rational
Num(r) == <<r, 1>>

One == <<1, 1>>

\* amount * rate
Times(amount, q) == Frac(amount * q[1], q[2])

\* the product of two rationals
Prod(p, q) == Frac(p[1] * q[1], p[2] * q[2])

----------------------------------------------------------------------------
(* Rate tables: an ordered mapping anchor -> entry (a JSON object keeps    *)
(* insertion order).  An entry is null (a failed fetch), an object without *)
(* a "rates" key, or an object whose "rates" maps codes to numbers.        *)

NullEntry == [kind |-> "null"]
NoRatesEntry == [kind |-> "norates"]
RatesEntry(r) == [kind |-> "rates", rates |-> r]

RateSets == UNION {[S -> 0..MaxRate] : S \in SUBSET Codes}
Entries == {NullEntry, NoRatesEntry} \cup {RatesEntry(r) : r \in RateSets}

\* the top-level keys of a table, in iteration order
KeySeqs == {<<>>} \cup {<<a>> : a \in AnchorCodes}
             \cup {p \in AnchorCodes \X AnchorCodes : p[1] # p[2]}

\* the table with keys ks and entries es
Table(ks, es) == [i \in 1..Len(ks) |-> [key |-> ks[i], entry |-> es[i]]]

Keys(d) == {d[i].key : i \in 1..Len(d)}

\* data[key]
Lookup(d, k) == d[CHOOSE i \in 1..Len(d) : d[i].key = k].entry

\* isinstance(currency_data, dict) and "rates" in currency_data
HasRates(e) == e.kind = "rates"

----------------------------------------------------------------------------
(* currency_converter.py *)

\* the anchors, in iteration order, whose rate set holds the currency
AnchorsHolding(d, currency) ==
    {i \in 1..Len(d) : HasRates(d[i].entry) /\ currency \in DOMAIN d[i].entry.rates}

\* find_base_currency passing over a top-level key whose entry carries no rates
find_base_currency_skip_unusable(d, currency) ==
    IF currency \in Keys(d) /\ HasRates(Lookup(d, currency)) THEN Some(currency)
    ELSE IF AnchorsHolding(d, currency) = {}
    THEN IF currency \in Keys(d) THEN Some(currency) ELSE None
    ELSE Some(d[CHOOSE i \in AnchorsHolding(d, currency) :
                    \A j \in AnchorsHolding(d, currency) : i <= j].key)

\* find_base_currency keeping the last anchor that holds the currency
find_base_currency_last(d, currency) ==
    IF currency \in Keys(d) THEN Some(currency)
    ELSE LET hits == AnchorsHolding(d, currency) IN
         IF hits = {} THEN None
         ELSE Some(d[CHOOSE i \in hits : \A j \in hits : i >= j].key)

find_base_currency(d, currency) ==
    IF currency \in Keys(d) THEN Some(currency)
    ELSE LET hits == AnchorsHolding(d, currency) IN
         IF hits = {} THEN None
         ELSE Some(d[CHOOSE i \in hits : \A j \in hits : i <= j].key)

\* get_exchange_rate returning the target's rate without dividing by the source's
get_exchange_rate_unscaled(d, from_currency, to_currency) ==
    IF from_currency = to_currency THEN Some(One)
    ELSE LET base_currency == find_base_currency(d, from_currency) IN
         IF IsNone(base_currency) THEN None
         ELSE LET base_data == Lookup(d, base_currency.val) IN
              IF ~HasRates(base_data) THEN None
              ELSE LET rates == base_data.rates IN
                   IF from_currency \in DOMAIN rates /\ to_currency \in DOMAIN rates
                   THEN IF rates[from_currency] = 0 THEN None
                        ELSE Some(Num(rates[to_currency]))
                   ELSE None

\* get_exchange_rate taking the anchor's own rate to be 1 when the source is the anchor
get_exchange_rate_anchor_is_one(d, from_currency, to_currency) ==
    IF from_currency = to_currency THEN Some(One)
    ELSE LET base_currency == find_base_currency(d, from_currency) IN
         IF IsNone(base_currency) THEN None
         ELSE LET base_data == Lookup(d, base_currency.val) IN
              IF ~HasRates(base_data) THEN None
              ELSE LET rates == base_data.rates IN
                   IF from_currency \in DOMAIN rates /\ to_currency \in DOMAIN rates
                   THEN IF rates[from_currency] = 0 THEN None
                        ELSE IF from_currency = base_currency.val
                        THEN Some(Num(rates[to_currency]))
                        ELSE Some(Frac(rates[to_currency], rates[from_currency]))
                   ELSE None

\* get_exchange_rate comparing the two codes only after the anchor lookup
get_exchange_rate_lookup_first(d, from_currency, to_currency) ==
    LET base_currency == find_base_currency(d, from_currency) IN
    IF IsNone(base_currency) THEN None
    ELSE IF from_currency = to_currency THEN Some(One)
    ELSE LET base_data == Lookup(d, base_currency.val) IN
         IF ~HasRates(base_data) THEN None
         ELSE LET rates == base_data.rates IN
              IF from_currency \in DOMAIN rates /\ to_currency \in DOMAIN rates
              THEN IF rates[from_currency] = 0 THEN None
                   ELSE Some(Frac(rates[to_currency], rates[from_currency]))
              ELSE None

get_exchange_rate(d, from_currency, to_currency) ==
    IF from_currency = to_currency THEN Some(One)
    ELSE LET base_currency == find_base_currency(d, from_currency) IN
         IF IsNone(base_currency) THEN None
         ELSE LET base_data == Lookup(d, base_currency.val) IN
              IF ~HasRates(base_data) THEN None
              ELSE LET rates == base_data.rates IN
                   IF from_currency \in DOMAIN rates /\ to_currency \in DOMAIN rates
                   THEN IF rates[from_currency] = 0 THEN None
                        ELSE Some(Frac(rates[to_currency], rates[from_currency]))
                   ELSE None

\* the calls get_exchange_rate makes: none for equal codes (lines 88-89),
\* else the anchor lookup of line 92
get_exchange_rate_calls(d, from_currency, to_currency) ==
    IF from_currency = to_currency THEN <<>> ELSE <<"find_base_currency">>

\* convert_currency testing the rate for truth, so that a rate of 0 counts as none
convert_currency_truthy(d, amount, from_currency, to_currency) ==
    LET rate == get_exchange_rate(d, from_currency, to_currency) IN
    [ret |-> IF IsNone(rate) \/ rate.val[1] = 0 THEN None
             ELSE Some(Times(amount, rate.val)),
     calls |-> <<"get_exchange_rate">>]

\* returns the value and the calls made on the way
convert_currency(d, amount, from_currency, to_currency) ==
    LET rate == get_exchange_rate(d, from_currency, to_currency) IN
    [ret |-> IF IsNone(rate) THEN None ELSE Some(Times(amount, rate.val)),
     calls |-> <<"get_exchange_rate">>]

\* the codes of every rate set, as a set (the code sorts the list for display)
get_available_currencies(d) ==
    UNION {DOMAIN d[i].entry.rates : i \in {j \in 1..Len(d) : HasRates(d[j].entry)}}

\* float(input(...).strip()) at the amount prompt: the number, or None for ValueError
ParseFloat(s) ==
    CASE s = "-1" -> Some(-1)
      [] s = "0" -> Some(0)
      [] s = "2" -> Some(2)
      [] OTHER -> None

\* main's choice "1" without the check of the amount's sign
main_convert_unchecked(d, from_currency, to_currency, amount_text) ==
    LET available_currencies == get_available_currencies(d)
        amount == ParseFloat(amount_text)
    IN  IF from_currency \notin available_currencies
        THEN [out |-> "unknown_from", value |-> None, calls |-> <<>>]
        ELSE IF to_currency \notin available_currencies
        THEN [out |-> "unknown_to", value |-> None, calls |-> <<>>]
        ELSE IF IsNone(amount)
        THEN [out |-> "not_a_number", value |-> None, calls |-> <<>>]
        ELSE LET r == convert_currency(d, amount.val, from_currency, to_currency) IN
             [out |-> IF IsNone(r.ret) THEN "no_rate" ELSE "converted",
              value |-> r.ret,
              calls |-> <<"convert_currency">> \o r.calls]

\* choice "1" of main's menu, for the codes and the amount text typed:
\* the message printed, the value shown, and the calls made
main_convert(d, from_currency, to_currency, amount_text) ==
    LET available_currencies == get_available_currencies(d)
        amount == ParseFloat(amount_text)
    IN  IF from_currency \notin available_currencies
        THEN [out |-> "unknown_from", value |-> None, calls |-> <<>>]
        ELSE IF to_currency \notin available_currencies
        THEN [out |-> "unknown_to", value |-> None, calls |-> <<>>]
        ELSE IF IsNone(amount)
        THEN [out |-> "not_a_number", value |-> None, calls |-> <<>>]
        ELSE IF amount.val < 0
        THEN [out |-> "negative_amount", value |-> None, calls |-> <<>>]
        ELSE LET r == convert_currency(d, amount.val, from_currency, to_currency) IN
             [out |-> IF IsNone(r.ret) THEN "no_rate" ELSE "converted",
              value |-> r.ret,
              calls |-> <<"convert_currency">> \o r.calls]

----------------------------------------------------------------------------
(* currency.py: the resolver of the rate viewer *)

find_base_currency_for_currency(d, currency) ==
    IF currency \in Keys(d) THEN Some(currency)
    ELSE LET hits == AnchorsHolding(d, currency) IN
         IF hits = {} THEN None
         ELSE Some(d[CHOOSE i \in hits : \A j \in hits : i <= j].key)

\* the rebase without the division by the base code's rate
Rebase_unscaled(source_rates, base_currency, base_rate) ==
    [currency \in DOMAIN source_rates |->
        IF currency = base_currency THEN One
        ELSE Num(source_rates[currency])]

\* the rebased mapping with the quotient taken the other way round
Rebase_inverted(source_rates, base_currency, base_rate) ==
    [currency \in DOMAIN source_rates |->
        IF currency = base_currency THEN One
        ELSE IF source_rates[currency] = 0 THEN <<0, 1>>
        ELSE Frac(base_rate, source_rates[currency])]

\* the rebased mapping of lines 187-193
Rebase(source_rates, base_currency, base_rate) ==
    [currency \in DOMAIN source_rates |->
        IF currency = base_currency THEN One
        ELSE Frac(source_rates[currency], base_rate)]

get_rates_for_base_currency(d, base_currency) ==
    IF base_currency \in Keys(d) /\ HasRates(Lookup(d, base_currency))
    THEN Some([c \in DOMAIN Lookup(d, base_currency).rates |->
                  Num(Lookup(d, base_currency).rates[c])])
    ELSE LET source_base == find_base_currency_for_currency(d, base_currency) IN
         IF IsNone(source_base) THEN None
         ELSE LET source_data == Lookup(d, source_base.val) IN
              IF ~HasRates(source_data) THEN None
              ELSE LET source_rates == source_data.rates IN
                   IF base_currency \notin DOMAIN source_rates THEN None
                   ELSE IF source_rates[base_currency] = 0 THEN None
                   ELSE Some(Rebase(source_rates, base_currency,
                                    source_rates[base_currency]))

----------------------------------------------------------------------------
(* Spec: each function applied once to every bounded table *)

Idle == [op |-> "none"]

FnInit ==
    /\ \E ks \in KeySeqs : \E es \in [1..Len(ks) -> Entries] : data = Table(ks, es)
    /\ call = Idle
    /\ result = None
    /\ calls = <<>>
    /\ prog = "none"
    /\ pc = "idle"
    /\ file = [exists |-> FALSE]
    /\ fileAtStart = [exists |-> FALSE]
    /\ fresh = [checked |-> FALSE]
    /\ fetched = <<>>
    /\ allData = <<>>
    /\ saved = [done |-> FALSE]
    /\ loaded = [done |-> FALSE]

CallFindBaseCurrency ==
    /\ prog = "none" /\ call = Idle
    /\ \E c \in Codes :
        /\ call' = [op |-> "find_base_currency", currency |-> c]
        /\ result' = find_base_currency(data, c)
        /\ calls' = <<>>
    /\ UNCHANGED <<data, runVars>>

CallFindBaseCurrencyForCurrency ==
    /\ prog = "none" /\ call = Idle
    /\ \E c \in Codes :
        /\ call' = [op |-> "find_base_currency_for_currency", currency |-> c]
        /\ result' = find_base_currency_for_currency(data, c)
        /\ calls' = <<>>
    /\ UNCHANGED <<data, runVars>>

CallGetExchangeRate ==
    /\ prog = "none" /\ call = Idle
    /\ \E f \in Codes, t \in Codes :
        /\ call' = [op |-> "get_exchange_rate", from |-> f, to |-> t]
        /\ result' = get_exchange_rate(data, f, t)
        /\ calls' = get_exchange_rate_calls(data, f, t)
    /\ UNCHANGED <<data, runVars>>

CallConvertCurrency ==
    /\ prog = "none" /\ call = Idle
    /\ \E a \in Amounts, f \in Codes, t \in Codes :
        LET r == convert_currency(data, a, f, t) IN
        /\ call' = [op |-> "convert_currency", amount |-> a, from |-> f, to |-> t]
        /\ result' = r.ret
        /\ calls' = r.calls
    /\ UNCHANGED <<data, runVars>>

CallGetRatesForBaseCurrency ==
    /\ prog = "none" /\ call = Idle
    /\ \E b \in Codes :
        /\ call' = [op |-> "get_rates_for_base_currency", base |-> b]
        /\ result' = get_rates_for_base_currency(data, b)
        /\ calls' = <<>>
    /\ UNCHANGED <<data, runVars>>

\* main's menu is reached only with a non-empty table that lists a currency
MainConvert ==
    /\ prog = "none" /\ call = Idle
    /\ data # <<>> /\ get_available_currencies(data) # {}
    /\ \E f \in Codes, t \in Codes, a \in AmountInputs :
        LET r == main_convert(data, f, t, a) IN
        /\ call' = [op |-> "main_convert", from |-> f, to |-> t, text |-> a]
        /\ result' = [out |-> r.out, value |-> r.value]
        /\ calls' = r.calls
    /\ UNCHANGED <<data, runVars>>

FnNext ==
    \/ CallFindBaseCurrency
    \/ CallFindBaseCurrencyForCurrency
    \/ CallGetExchangeRate
    \/ CallGetRatesForBaseCurrency

\* the resolver functions
Spec == FnInit /\ [][FnNext]_vars

ConvertNext ==
    \/ CallConvertCurrency
    \/ MainConvert

\* the converter function and the converter's menu handler
ConvertSpec == FnInit /\ [][ConvertNext]_vars

----------------------------------------------------------------------------
(* currency.py: the cache file, the refresh and the load *)

FAVORITE_CURRENCIES == <<"USD", "EUR", "GBP", "RUB">>

\* the codes the API quotes
ApiCodes == {"USD", "EUR", "GBP", "RUB", "JPY"}

\* the rate set the API returns for an anchor, and the one of an older snapshot
ApiRates(anchor) == [c \in ApiCodes |-> IF c = anchor THEN 1 ELSE 2]
OldRates(anchor) == [c \in ApiCodes |-> 1]

OldTable ==
    [i \in 1..Len(FAVORITE_CURRENCIES) |->
        [key |-> FAVORITE_CURRENCIES[i],
         entry |-> RatesEntry(OldRates(FAVORITE_CURRENCIES[i]))]]

\* timedelta(hours=24), in minutes
MaxAgeMinutes == 1440

\* the ages, in minutes, a cache file may have when a run starts (-1: a
\* modification time in the future)
AgeValues == {-1, 0, 1, MaxAgeMinutes - 1, MaxAgeMinutes, MaxAgeMinutes + 1}

\* A JSON document is the sequence of chunks json.dump writes: the opening
\* brace, one chunk per key with its value, the closing brace.
OpenBrace == [t |-> "{"]
CloseBrace == [t |-> "}"]
Pair(k, e) == [t |-> "pair", key |-> k, entry |-> e]
Garbage == <<[t |-> "garbage"]>>

\* json.dump(data, file)
Serialize(d) ==
    <<OpenBrace>> \o [i \in 1..Len(d) |-> Pair(d[i].key, d[i].entry)] \o <<CloseBrace>>

\* json.load(file): the table, or None for json.JSONDecodeError
Parse(content) ==
    IF /\ Len(content) >= 2
       /\ content[1] = OpenBrace
       /\ content[Len(content)] = CloseBrace
       /\ \A i \in 2..(Len(content) - 1) : content[i].t = "pair"
    THEN Some([i \in 1..(Len(content) - 2) |->
                  [key |-> content[i + 1].key, entry |-> content[i + 1].entry]])
    ELSE None

NoFile == [exists |-> FALSE]
FileWith(content, fileAge) == [exists |-> TRUE, content |-> content, age |-> fileAge]

\* what one HTTP request may come to: a 200 with a JSON body, another status,
\* a 200 whose body is not JSON, no response at all
FetchOutcomes == {"ok", "status", "malformed", "neterror"}

\* requests.get raises for "neterror", response.json() raises for "malformed"
get_currency_rate(currency_code, outcome) ==
    CASE outcome = "ok" -> [raised |-> FALSE, ret |-> RatesEntry(ApiRates(currency_code))]
      [] outcome = "status" -> [raised |-> FALSE, ret |-> NullEntry]
      [] OTHER -> [raised |-> TRUE]

\* how a write of content may end: done, open() fails, or the write fails
\* after some of the chunks
WriteOutcomes(content) ==
    {[kind |-> "ok"], [kind |-> "open_fails"]}
        \cup {[kind |-> "write_fails", written |-> k] : k \in 0..(Len(content) - 1)}

\* the file save_to_file leaves and whether it printed an error; it raises nothing
save_to_file(d, f, w) ==
    CASE w.kind = "ok" ->
            [raised |-> FALSE, ok |-> TRUE, file |-> FileWith(Serialize(d), 0)]
      [] w.kind = "open_fails" ->
            [raised |-> FALSE, ok |-> FALSE, file |-> f]
      [] OTHER ->
            [raised |-> FALSE, ok |-> FALSE,
             file |-> FileWith(SubSeq(Serialize(d), 1, w.written), 0)]

\* the first request of outs that raises, or 0
FirstRaise(outs) ==
    IF \E i \in 1..Len(outs) : get_currency_rate(FAVORITE_CURRENCIES[i], outs[i]).raised
    THEN CHOOSE i \in 1..Len(outs) :
            /\ get_currency_rate(FAVORITE_CURRENCIES[i], outs[i]).raised
            /\ \A j \in 1..(i - 1) : ~get_currency_rate(FAVORITE_CURRENCIES[j], outs[j]).raised
    ELSE 0

\* all_data after the loop of lines 38-41, as far as the loop gets
AllData(outs) ==
    LET stop == FirstRaise(outs)
        n == IF stop = 0 THEN Len(outs) ELSE stop - 1
    IN  [i \in 1..n |->
            [key |-> FAVORITE_CURRENCIES[i],
             entry |-> get_currency_rate(FAVORITE_CURRENCIES[i], outs[i]).ret]]

\* update_currency_rates for the request outcomes outs and the write outcome w:
\* the requests issued, the table assembled, the save's outcome, the file left
update_currency_rates(outs, f, w) ==
    LET stop == FirstRaise(outs)
        all_data == AllData(outs)
    IN  IF stop # 0
        THEN [raised |-> TRUE, issued |-> SubSeq(outs, 1, stop), all_data |-> all_data,
              saved |-> [done |-> FALSE], file |-> f]
        ELSE [raised |-> FALSE, issued |-> outs, all_data |-> all_data,
              saved |-> [done |-> TRUE, ok |-> save_to_file(all_data, f, w).ok],
              file |-> save_to_file(all_data, f, w).file]

\* is_file_older_than_24_hours reading >= for >
is_file_older_than_24_hours_inclusive(f, probe_fails) ==
    IF ~f.exists THEN TRUE
    ELSE IF probe_fails THEN TRUE
    ELSE f.age >= MaxAgeMinutes

\* probe_fails: os.path.getmtime (or the arithmetic on it) raises
is_file_older_than_24_hours(f, probe_fails) ==
    IF ~f.exists THEN TRUE
    ELSE IF probe_fails THEN TRUE
    ELSE f.age > MaxAgeMinutes

\* read_from_file letting json.JSONDecodeError through
read_from_file_uncaught(f, io_fails) ==
    IF ~f.exists THEN [raised |-> FALSE, ret |-> None, message |-> "not_found"]
    ELSE IF io_fails THEN [raised |-> FALSE, ret |-> None, message |-> "read_error"]
    ELSE IF IsNone(Parse(f.content)) THEN [raised |-> TRUE]
    ELSE [raised |-> FALSE, ret |-> Parse(f.content), message |-> "none"]

\* read_from_file and load_currency_data: the value returned and the message
\* printed; io_fails: open() or the read raises something else than
\* FileNotFoundError and json.JSONDecodeError
read_from_file(f, io_fails) ==
    IF ~f.exists THEN [raised |-> FALSE, ret |-> None, message |-> "not_found"]
    ELSE IF io_fails THEN [raised |-> FALSE, ret |-> None, message |-> "read_error"]
    ELSE IF IsNone(Parse(f.content))
    THEN [raised |-> FALSE, ret |-> None, message |-> "bad_json"]
    ELSE [raised |-> FALSE, ret |-> Parse(f.content), message |-> "none"]

\* load_or_update_currency_rates refreshing whatever the check says
AfterFreshnessCheck_always_update(older) == "update"

\* load_or_update_currency_rates, lines 103-107: what follows the check
AfterFreshnessCheck(older) == IF older THEN "update" ELSE "read"

\* choice "2" of main's menu: the message printed and the rate shown
main_rate(d, from_currency, to_currency) ==
    LET available_currencies == get_available_currencies(d) IN
    IF from_currency \notin available_currencies
    THEN [out |-> "unknown_from", value |-> None]
    ELSE IF to_currency \notin available_currencies
    THEN [out |-> "unknown_to", value |-> None]
    ELSE LET rate == get_exchange_rate(d, from_currency, to_currency) IN
         [out |-> IF IsNone(rate) THEN "no_rate" ELSE "rate", value |-> rate]

----------------------------------------------------------------------------
(* RunSpec: one run of currency.py or of currency_converter.py *)

\* the codes typed at the prompts of the two menus
MenuCodes == {"USD", "JPY", "XXX"}

InitialFiles ==
    {NoFile} \cup {FileWith(c, a) : c \in {Serialize(OldTable), Garbage}, a \in AgeValues}

RunInit ==
    /\ prog \in {"currency", "converter"}
    /\ pc = "start"
    /\ file \in InitialFiles
    /\ fileAtStart = file
    /\ fresh = [checked |-> FALSE]
    /\ fetched = <<>>
    /\ allData = <<>>
    /\ saved = [done |-> FALSE]
    /\ loaded = [done |-> FALSE]
    /\ data = <<>>
    /\ call = Idle
    /\ result = None
    /\ calls = <<>>

\* load_or_update_currency_rates, line 103
CheckFreshness ==
    /\ prog = "currency" /\ pc = "start"
    /\ \E probe_fails \in (IF file.exists THEN BOOLEAN ELSE {FALSE}) :
        LET older == is_file_older_than_24_hours(file, probe_fails) IN
        /\ fresh' = [checked |-> TRUE, older |-> older, probe_failed |-> probe_fails]
        /\ pc' = AfterFreshnessCheck(older)
    /\ UNCHANGED <<fnVars, prog, file, fileAtStart, fetched, allData, saved, loaded>>

\* load_or_update_currency_rates, line 105; an exception ends the script
UpdateCurrencyRates ==
    /\ prog = "currency" /\ pc = "update"
    /\ \E outs \in [1..Len(FAVORITE_CURRENCIES) -> FetchOutcomes] :
       \E w \in WriteOutcomes(Serialize(AllData(outs))) :
        LET u == update_currency_rates(outs, file, w) IN
        /\ fetched' = u.issued
        /\ allData' = u.all_data
        /\ saved' = u.saved
        /\ file' = u.file
        /\ pc' = IF u.raised THEN "crashed" ELSE "read"
    /\ UNCHANGED <<fnVars, prog, fileAtStart, fresh, loaded>>

\* what follows a load: the menu for a table the script accepts, else the end
AfterLoad(script, r) ==
    IF r.raised THEN "crashed"
    ELSE IF IsNone(r.ret) \/ r.ret.val = <<>> THEN "done"
    ELSE IF script = "converter" /\ get_available_currencies(r.ret.val) = {} THEN "done"
    ELSE "menu"

\* load_or_update_currency_rates, line 110, and the test of line 284
ReadFromFile ==
    /\ prog = "currency" /\ pc = "read"
    /\ \E io_fails \in (IF file.exists THEN BOOLEAN ELSE {FALSE}) :
        LET r == read_from_file(file, io_fails) IN
        /\ loaded' = [done |-> TRUE, io_failed |-> io_fails, r |-> r]
        /\ data' = IF ~r.raised /\ ~IsNone(r.ret) THEN r.ret.val ELSE <<>>
        /\ pc' = AfterLoad(prog, r)
    /\ UNCHANGED <<call, result, calls, prog, file, fileAtStart, fresh, fetched,
                   allData, saved>>

\* currency_converter.py main, lines 165-175
LoadCurrencyData ==
    /\ prog = "converter" /\ pc = "start"
    /\ \E io_fails \in (IF file.exists THEN BOOLEAN ELSE {FALSE}) :
        LET r == read_from_file(file, io_fails) IN
        /\ loaded' = [done |-> TRUE, io_failed |-> io_fails, r |-> r]
        /\ data' = IF ~r.raised /\ ~IsNone(r.ret) THEN r.ret.val ELSE <<>>
        /\ pc' = AfterLoad(prog, r)
    /\ UNCHANGED <<call, result, calls, prog, file, fileAtStart, fresh, fetched,
                   allData, saved>>

\* show_currency_rates_interface: a base code typed
ShowRates ==
    /\ prog = "currency" /\ pc = "menu"
    /\ \E b \in MenuCodes :
        /\ call' = [op |-> "get_rates_for_base_currency", base |-> b]
        /\ result' = get_rates_for_base_currency(data, b)
        /\ calls' = <<"get_rates_for_base_currency">>
    /\ UNCHANGED <<data, runVars>>

\* main's choice "1"
MenuConvert ==
    /\ prog = "converter" /\ pc = "menu"
    /\ \E f \in MenuCodes, t \in MenuCodes, a \in AmountInputs :
        LET r == main_convert(data, f, t, a) IN
        /\ call' = [op |-> "main_convert", from |-> f, to |-> t, text |-> a]
        /\ result' = [out |-> r.out, value |-> r.value]
        /\ calls' = r.calls
    /\ UNCHANGED <<data, runVars>>

\* main's choice "2"
MenuRate ==
    /\ prog = "converter" /\ pc = "menu"
    /\ \E f \in MenuCodes, t \in MenuCodes :
        /\ call' = [op |-> "main_rate", from |-> f, to |-> t]
        /\ result' = main_rate(data, f, t)
        /\ calls' = IF main_rate(data, f, t).out \in {"unknown_from", "unknown_to"}
                    THEN <<>> ELSE <<"get_exchange_rate">>
    /\ UNCHANGED <<data, runVars>>

\* "exit" typed in currency.py, choice "0" in the converter
MenuExit ==
    /\ pc = "menu"
    /\ pc' = "done"
    /\ UNCHANGED <<fnVars, prog, file, fileAtStart, fresh, fetched, allData, saved, loaded>>

RunNext ==
    \/ CheckFreshness
    \/ UpdateCurrencyRates
    \/ ReadFromFile
    \/ LoadCurrencyData
    \/ ShowRates
    \/ MenuConvert
    \/ MenuRate
    \/ MenuExit

RunSpec == RunInit /\ [][RunNext]_vars

----------------------------------------------------------------------------
(* Claims about the resolver (Spec) and the converter (ConvertSpec) *)

IsRateCall == call.op = "get_exchange_rate"

\* the rate set get_exchange_rate reads for from_currency: that of the anchor
\* find_base_currency names, when it names one that carries rates
AnchorRates(d, currency) ==
    LET a == find_base_currency(d, currency) IN
    IF IsNone(a) THEN None
    ELSE IF ~HasRates(Lookup(d, a.val)) THEN None
    ELSE Some(Lookup(d, a.val).rates)

BothPresent(d, f, t) ==
    /\ ~IsNone(AnchorRates(d, f))
    /\ f \in DOMAIN AnchorRates(d, f).val
    /\ t \in DOMAIN AnchorRates(d, f).val

\* r is the rational num / den
IsRatio(r, num, den) ==
    /\ ~IsNone(r)
    /\ r.val[2] > 0
    /\ r.val[1] * den = r.val[2] * num

\* C1 as claimed: for distinct codes, get_exchange_rate returns
\* rates[to] / rates[from] of from's anchor whenever both codes are in that
\* anchor's rate set, and None whenever the anchor is not found or a code is
\* absent from it.
C1_AsClaimed ==
    (IsRateCall /\ call.from # call.to) =>
        IF BothPresent(data, call.from, call.to)
        THEN IsRatio(result, AnchorRates(data, call.from).val[call.to],
                             AnchorRates(data, call.from).val[call.from])
        ELSE result = None

\* C1 amended: for distinct codes, get_exchange_rate returns
\* rates[to] / rates[from] of from's anchor when both codes are in that
\* anchor's rate set and rates[from] is not 0; it returns None when the anchor
\* is not found, when a code is absent from it, or when rates[from] is 0.
\* Only that one anchor's rate set is read.
C1_RateFromOneAnchor ==
    (IsRateCall /\ call.from # call.to) =>
        IF BothPresent(data, call.from, call.to)
           /\ AnchorRates(data, call.from).val[call.from] # 0
        THEN result = Some(Frac(AnchorRates(data, call.from).val[call.to],
                                AnchorRates(data, call.from).val[call.from]))
        ELSE result = None

\* a rate other than 1 resolved through an anchor that is not the source code,
\* in a table of two anchors
C1_Witness ==
    /\ IsRateCall /\ call.from # call.to
    /\ Len(data) = 2
    /\ call.from \notin Keys(data)
    /\ BothPresent(data, call.from, call.to)
    /\ result = Some(<<1, 2>>)

\* some anchor's rate set holds both codes with nonzero rates
ShareAnAnchor(d, x, y) ==
    \E i \in 1..Len(d) :
        /\ HasRates(d[i].entry)
        /\ x \in DOMAIN d[i].entry.rates /\ d[i].entry.rates[x] # 0
        /\ y \in DOMAIN d[i].entry.rates /\ d[i].entry.rates[y] # 0

\* both calls succeed and their product is 1
Reciprocal(d, x, y) ==
    /\ ~IsNone(get_exchange_rate(d, x, y))
    /\ ~IsNone(get_exchange_rate(d, y, x))
    /\ Prod(get_exchange_rate(d, x, y).val, get_exchange_rate(d, y, x).val) = One

\* C2 as claimed: whenever x and y both have nonzero rates in the rate set of
\* one same anchor, get_exchange_rate(x, y) and get_exchange_rate(y, x) both
\* succeed and multiply to 1.
C2_AsClaimed ==
    (IsRateCall /\ ShareAnAnchor(data, call.from, call.to)) =>
        /\ result = get_exchange_rate(data, call.from, call.to)
        /\ Reciprocal(data, call.from, call.to)

\* find_base_currency resolves x and y to one same anchor, and both have
\* nonzero rates in that anchor's rate set
ResolveToOneAnchor(d, x, y) ==
    /\ find_base_currency(d, x) = find_base_currency(d, y)
    /\ BothPresent(d, x, y)
    /\ AnchorRates(d, x).val[x] # 0
    /\ AnchorRates(d, x).val[y] # 0

\* C2 amended: whenever find_base_currency resolves x and y to one same anchor
\* and both have nonzero rates in that anchor's rate set,
\* get_exchange_rate(x, y) and get_exchange_rate(y, x) both succeed and
\* multiply to exactly 1.
C2_Reciprocal ==
    (IsRateCall /\ ResolveToOneAnchor(data, call.from, call.to)) =>
        /\ result = get_exchange_rate(data, call.from, call.to)
        /\ Reciprocal(data, call.from, call.to)

\* a top-level anchor x and a code y under it, with a rate other than 1
C2_Witness ==
    /\ IsRateCall
    /\ call.from \in Keys(data) /\ call.to \notin Keys(data)
    /\ ResolveToOneAnchor(data, call.from, call.to)
    /\ result = Some(<<2, 1>>)
    /\ get_exchange_rate(data, call.to, call.from) = Some(<<1, 2>>)

IsRatesForBaseCall == call.op = "get_rates_for_base_currency"

\* the first anchor, in iteration order, whose rate set holds the code
FirstHolding(d, c) ==
    CHOOSE i \in AnchorsHolding(d, c) : \A j \in AnchorsHolding(d, c) : i <= j

\* C8: for a base code that is no top-level anchor, get_rates_for_base_currency
\* returns None when no anchor's rate set holds it or when its rate b there is
\* 0; otherwise a mapping with exactly that anchor's codes, the base code
\* mapped to exactly 1 and every other code c to rate[c] / b.
C8_RatesRebased ==
    (IsRatesForBaseCall /\ call.base \notin Keys(data)) =>
        IF AnchorsHolding(data, call.base) = {} THEN result = None
        ELSE LET rates == data[FirstHolding(data, call.base)].entry.rates
                 b == rates[call.base]
             IN  IF b = 0 THEN result = None
                 ELSE /\ ~IsNone(result)
                      /\ DOMAIN result.val = DOMAIN rates
                      /\ result.val[call.base] = One
                      /\ \A c \in DOMAIN rates \ {call.base} :
                            result.val[c] = Frac(rates[c], b)

\* a rebase of three codes by a rate of 2
C8_Witness ==
    /\ IsRatesForBaseCall /\ call.base \notin Keys(data)
    /\ ~IsNone(result)
    /\ DOMAIN result.val = Codes
    /\ \E c \in Codes : result.val[c] = <<1, 2>>
    /\ result.val[call.base] = One

InvalidInput == [error |-> "InvalidInput"]

IsConvertCall == call.op = "convert_currency"
IsMainConvert == call.op = "main_convert"

\* C3 as claimed: convert_currency with a negative amount fails with
\* InvalidInput and does not call get_exchange_rate.
C3_AsClaimed ==
    (IsConvertCall /\ call.amount < 0) =>
        /\ result = InvalidInput
        /\ \A i \in 1..Len(calls) : calls[i] # "get_exchange_rate"

\* the amount prompt of main's choice "1" is reached and a negative number typed
NegativeTyped ==
    /\ IsMainConvert
    /\ call.from \in get_available_currencies(data)
    /\ call.to \in get_available_currencies(data)
    /\ ~IsNone(ParseFloat(call.text))
    /\ ParseFloat(call.text).val < 0

\* C3 amended: the negative amount is rejected by main (choice "1" of the
\* menu), which prints an error and calls neither convert_currency nor
\* get_exchange_rate; convert_currency itself does not check the amount: with
\* a negative amount it calls get_exchange_rate and returns amount * rate, or
\* None when there is no rate.
C3_NegativeRejectedByMain ==
    /\ NegativeTyped =>
          /\ result.out = "negative_amount"
          /\ result.value = None
          /\ calls = <<>>
    /\ (IsConvertCall /\ call.amount < 0) =>
          /\ calls = <<"get_exchange_rate">>
          /\ LET rate == get_exchange_rate(data, call.from, call.to) IN
             result = IF IsNone(rate) THEN None
                      ELSE Some(Times(call.amount, rate.val))

\* -1 typed for a pair of distinct codes that has a rate
C3_Witness ==
    /\ NegativeTyped
    /\ call.from # call.to
    /\ ~IsNone(get_exchange_rate(data, call.from, call.to))
    /\ result.out = "negative_amount"

----------------------------------------------------------------------------
(* Claims about a run (RunSpec) *)

\* the refresh of this run has been attempted
RefreshAttempted == fresh.checked /\ fresh.older /\ pc # "update"

\* the entry the claim expects for request i of the refresh
ExpectedEntry(i) ==
    IF fetched[i] = "ok" THEN RatesEntry(ApiRates(FAVORITE_CURRENCIES[i]))
    ELSE NullEntry

\* C4 as claimed: whatever each request comes to (a 200 with rates, another
\* status, a malformed body), the refresh completes, and the table it saves
\* has one entry per configured anchor, in configured order: the fetched rate
\* set for a successful anchor, null for a failed one.
C4_AsClaimed ==
    (RefreshAttempted /\ \A i \in 1..Len(fetched) : fetched[i] # "neterror") =>
        /\ pc # "crashed"
        /\ saved.done
        /\ Len(allData) = Len(FAVORITE_CURRENCIES)
        /\ \A i \in 1..Len(allData) :
              /\ allData[i].key = FAVORITE_CURRENCIES[i]
              /\ allData[i].entry = ExpectedEntry(i)

\* the resolver or the converter is at work on a loaded table
TableInUse == pc = "menu" \/ call # Idle

\* C5 as claimed: whenever a run uses the resolver or the converter, the cache
\* file was checked for freshness before the table was loaded; a refresh
\* preceded the load exactly when the check found the file stale or missing;
\* with a fresh file no request was issued and the file is unchanged.
C5_AsClaimed ==
    TableInUse =>
        /\ fresh.checked
        /\ saved.done <=> fresh.older
        /\ ~fresh.older => (fetched = <<>> /\ file = fileAtStart)

\* C5 amended: in a run of currency.py the table is loaded after the
\* freshness check, update_currency_rates (all its requests and its save) has
\* run before the load exactly when is_file_older_than_24_hours returned true,
\* and when it returned false no request was issued and the cache file is
\* unchanged.  A run of currency_converter.py loads the cache file without
\* any freshness check, issues no request and leaves the file unchanged.
C5_FreshnessGatesRefresh ==
    /\ (prog = "currency" /\ loaded.done) =>
          /\ fresh.checked
          /\ fresh.older = is_file_older_than_24_hours(fileAtStart, fresh.probe_failed)
          /\ saved.done <=> fresh.older
          /\ Len(fetched) = Len(FAVORITE_CURRENCIES) <=> fresh.older
          /\ ~fresh.older => (fetched = <<>> /\ file = fileAtStart)
    /\ prog = "converter" =>
          /\ ~fresh.checked
          /\ ~saved.done
          /\ fetched = <<>>
          /\ file = fileAtStart

\* currency.py at its menu on a fresh cache file it did not touch
C5_Witness ==
    /\ prog = "currency" /\ pc = "menu"
    /\ call.op = "get_rates_for_base_currency"
    /\ fresh.checked /\ ~fresh.older
    /\ fetched = <<>> /\ ~saved.done
    /\ file = fileAtStart /\ file.age = 1
    /\ data = OldTable

\* C6 as claimed: when save_to_file fails during a refresh, no exception
\* reaches the caller and load_or_update_currency_rates returns the table the
\* refresh assembled.
C6_AsClaimed ==
    (prog = "currency" /\ saved.done /\ ~saved.ok /\ loaded.done) =>
        /\ pc # "crashed"
        /\ ~loaded.r.raised
        /\ loaded.r.ret = Some(allData)

\* C7 as claimed: once save_to_file has returned, the cache file holds the
\* complete previous snapshot or the complete new one.
C7_AsClaimed ==
    saved.done => (file = fileAtStart \/ (file.exists /\ file.content = Serialize(allData)))

\* C9: is_file_older_than_24_hours raises nothing and returns true for a
\* missing file, for a failed probe of the modification time and for an age
\* strictly above 24 hours, and false otherwise.
C9_StaleCheck ==
    fresh.checked =>
        /\ pc # "crashed" \/ fetched # <<>>
        /\ ~fileAtStart.exists => fresh.older
        /\ (fileAtStart.exists /\ fresh.probe_failed) => fresh.older
        /\ (fileAtStart.exists /\ ~fresh.probe_failed /\ fileAtStart.age > MaxAgeMinutes)
              => fresh.older
        /\ (fileAtStart.exists /\ ~fresh.probe_failed /\ fileAtStart.age <= MaxAgeMinutes)
              => ~fresh.older

\* a file modified one minute ago is found fresh
C9_Witness ==
    /\ fresh.checked /\ ~fresh.older
    /\ fileAtStart.exists /\ fileAtStart.age = 1
    /\ pc = "read"

\* the error values the claim distinguishes
NotFound == [error |-> "NotFound"]
Corrupt == [error |-> "Corrupt"]
IOError == [error |-> "IOError"]

\* C10 as claimed: the load raises nothing and returns NotFound for a missing
\* file, Corrupt for a malformed one, IOError for another read failure, and a
\* table only for a well-formed file.
C10_AsClaimed ==
    loaded.done =>
        /\ ~loaded.r.raised
        /\ loaded.r.ret =
              IF ~file.exists THEN NotFound
              ELSE IF loaded.io_failed THEN IOError
              ELSE IF IsNone(Parse(file.content)) THEN Corrupt
              ELSE Parse(file.content)

\* C10 amended: the load (read_from_file, load_currency_data) raises nothing;
\* it returns None for a missing file, for a malformed one and for any other
\* read failure alike, and the cause shows only in the message printed, one
\* per cause; only a well-formed file yields a table.
C10_LoadReturnsNone ==
    loaded.done =>
        /\ ~loaded.r.raised
        /\ pc # "crashed"
        /\ ~file.exists =>
              (loaded.r.ret = None /\ loaded.r.message = "not_found")
        /\ (file.exists /\ loaded.io_failed) =>
              (loaded.r.ret = None /\ loaded.r.message = "read_error")
        /\ (file.exists /\ ~loaded.io_failed /\ IsNone(Parse(file.content))) =>
              (loaded.r.ret = None /\ loaded.r.message = "bad_json")
        /\ (file.exists /\ ~loaded.io_failed /\ ~IsNone(Parse(file.content))) =>
              (loaded.r.ret = Parse(file.content) /\ loaded.r.message = "none")
        /\ ~IsNone(loaded.r.ret) =>
              (file.exists /\ loaded.r.ret = Parse(file.content))

\* a cache file cut short by a failed write is loaded as None
C10_Witness ==
    /\ loaded.done
    /\ saved.done /\ ~saved.ok
    /\ file.exists /\ Len(file.content) = 3
    /\ loaded.r.ret = None /\ loaded.r.message = "bad_json"

----------------------------------------------------------------------------
(* Further claims about the resolver (Spec) and the converter (ConvertSpec) *)

\* C11: get_exchange_rate(table, c, c) returns 1.0 for every code c and every
\* table, and makes no anchor lookup on the way.
C11_SameCodeIsOne ==
    (IsRateCall /\ call.from = call.to) =>
        /\ result = Some(One)
        /\ calls = <<>>

\* a code that no anchor lookup would find, in a table of two anchors
C11_Witness ==
    /\ IsRateCall /\ call.from = call.to
    /\ Len(data) = 2
    /\ IsNone(find_base_currency(data, call.from))
    /\ result = Some(One)

Zero == <<0, 1>>

\* C12: for a non-negative amount, convert_currency returns
\* amount * get_exchange_rate(table, from, to) when the rate resolves (0 for
\* an amount of 0), and None exactly when get_exchange_rate returns None.
C12_AmountTimesRate ==
    (IsConvertCall /\ call.amount >= 0) =>
        LET rate == get_exchange_rate(data, call.from, call.to) IN
        /\ IsNone(result) <=> IsNone(rate)
        /\ ~IsNone(rate) =>
              /\ ~IsNone(result)
              /\ result.val[2] > 0
              /\ result.val[1] * rate.val[2] = call.amount * rate.val[1] * result.val[2]
        /\ (~IsNone(rate) /\ call.amount = 0) => result = Some(Zero)

\* 2 units converted at a rate of 1/2 through an anchor
C12_Witness ==
    /\ IsConvertCall /\ call.amount = 2
    /\ call.from # call.to
    /\ get_exchange_rate(data, call.from, call.to) = Some(<<1, 2>>)
    /\ result = Some(One)

IsLookupCall == call.op \in {"find_base_currency", "find_base_currency_for_currency"}

\* entry i of the table carries a rate set that holds the code
Holds(d, i, c) == d[i].entry.kind = "rates" /\ c \in DOMAIN d[i].entry.rates

\* C13: find_base_currency and find_base_currency_for_currency return the
\* code itself when it is a top-level key; else the key of the first entry, in
\* the table's order, whose rate set holds the code; else None.
C13_FirstAnchorWins ==
    IsLookupCall =>
        IF \E i \in 1..Len(data) : data[i].key = call.currency
        THEN result = Some(call.currency)
        ELSE IF \E i \in 1..Len(data) : Holds(data, i, call.currency)
        THEN \E i \in 1..Len(data) :
                /\ Holds(data, i, call.currency)
                /\ \A j \in 1..(i - 1) : ~Holds(data, j, call.currency)
                /\ result = Some(data[i].key)
        ELSE result = None

\* a code held by both anchors' rate sets resolves to the first anchor
C13_Witness ==
    /\ IsLookupCall
    /\ Len(data) = 2
    /\ call.currency \notin Keys(data)
    /\ Holds(data, 1, call.currency) /\ Holds(data, 2, call.currency)
    /\ result = Some(data[1].key)

\* the code is a top-level key whose entry is null or has no "rates" field
FailedAnchor(d, k) == \E i \in 1..Len(d) : d[i].key = k /\ d[i].entry.kind # "rates"

\* another anchor's rate set holds the code with a nonzero rate
PricedElsewhere(d, k) ==
    \E i \in 1..Len(d) : d[i].key # k /\ Holds(d, i, k) /\ d[i].entry.rates[k] # 0

\* C14: a top-level key K whose entry is null or lacks rates is never resolved
\* through another anchor: get_exchange_rate(K, to) with to # K and
\* get_rates_for_base_currency(K) return None, whatever other anchors hold.
C14_FailedAnchorNotRerouted ==
    /\ (IsRateCall /\ call.from # call.to /\ FailedAnchor(data, call.from))
           => result = None
    /\ (IsRatesForBaseCall /\ FailedAnchor(data, call.base)) => result = None

\* K and the target are both priced, nonzero, by the other anchor, and the
\* call still returns None
C14_Witness ==
    /\ IsRateCall /\ call.from # call.to
    /\ FailedAnchor(data, call.from)
    /\ PricedElsewhere(data, call.from)
    /\ \E i \in 1..Len(data) :
          /\ Holds(data, i, call.from) /\ Holds(data, i, call.to)
          /\ data[i].entry.rates[call.from] # 0
          /\ data[i].entry.rates[call.to] # 0
    /\ result = None

\* get_rates_for_base_currency(base) has an entry for c exactly when
\* get_exchange_rate(base, c) succeeds, and then the two values are equal
Agree(c) ==
    LET rate == get_exchange_rate(data, call.base, c) IN
    /\ (~IsNone(result) /\ c \in DOMAIN result.val) <=> ~IsNone(rate)
    /\ ~IsNone(rate) => result.val[c] = rate.val

\* C15 as stated: the two resolvers agree for every table and all codes
\* base # c, a top-level base whose own rate set lacks base included.
C15_AsClaimed ==
    IsRatesForBaseCall => \A c \in Codes \ {call.base} : Agree(c)

\* base is a top-level key carrying a rate set that does not price base at 1
OwnRateNotOne(d, base) ==
    \E i \in 1..Len(d) :
        /\ d[i].key = base /\ d[i].entry.kind = "rates"
        /\ \/ base \notin DOMAIN d[i].entry.rates
           \/ d[i].entry.rates[base] # 1

\* C15: the two resolvers agree for all codes base # c unless base is a
\* top-level key whose own rate set lacks base or prices it other than 1. In
\* that case get_rates_for_base_currency returns the stored rate set as it
\* is, while get_exchange_rate returns None when the set lacks base or c or
\* prices base at 0, and rates[c] / rates[base] otherwise.
C15_ResolversAgree ==
    IsRatesForBaseCall =>
        IF ~OwnRateNotOne(data, call.base)
        THEN \A c \in Codes \ {call.base} : Agree(c)
        ELSE \E i \in 1..Len(data) :
                LET rates == data[i].entry.rates IN
                /\ data[i].key = call.base
                /\ ~IsNone(result)
                /\ DOMAIN result.val = DOMAIN rates
                /\ \A c \in DOMAIN rates : result.val[c] = <<rates[c], 1>>
                /\ \A c \in Codes \ {call.base} :
                      LET rate == get_exchange_rate(data, call.base, c) IN
                      IF call.base \in DOMAIN rates /\ c \in DOMAIN rates
                            /\ rates[call.base] # 0
                      THEN /\ ~IsNone(rate)
                           /\ rate.val[2] > 0
                           /\ rate.val[1] * rates[call.base] = rates[c] * rate.val[2]
                      ELSE rate = None

\* a base found in an anchor's rate set at rate 2: both resolvers give 1/2
\* for a code the anchor prices at 1
C15_Witness ==
    /\ IsRatesForBaseCall
    /\ call.base \notin Keys(data)
    /\ ~IsNone(result)
    /\ \E c \in Codes \ {call.base} :
          /\ c \in DOMAIN result.val
          /\ result.val[c] = <<1, 2>>
          /\ get_exchange_rate(data, call.base, c) = Some(<<1, 2>>)

====
